---------------------------- MODULE Spec2Model ----------------------------
(***************************************************************************)
(* Booking form of royal-blue-rooms (src/src/pages/BookingForm.tsx) and     *)
(* the booking store it writes to through useBookings().addBooking.         *)
(*                                                                         *)
(* JavaScript strings are sequences of one-character strings, so that       *)
(* length checks, the contact-number pattern, the e-mail pattern and the    *)
(* Date parse are computed character by character.  The JavaScript value    *)
(* undefined is the one sequence Undefined, which is no string.             *)
(***************************************************************************)
EXTENDS Integers, Sequences, FiniteSets, TLC

VARIABLES
    formValues,   \* react-hook-form's field values of the mounted form
    roomType,     \* const [roomType, setRoomType] = useState('')
    resolved,     \* what zodResolver(bookingSchema) returned in the step just taken
    bookings,     \* the store's in-memory bookings, in insertion order
    persisted,    \* the store's durable copy
    toast,        \* the toast raised by the step just taken
    timers,       \* pending setTimeout(() => navigate('/guests'), 1500) callbacks
    location,     \* the router's current path
    navGuests,    \* navigate('/guests') calls made so far
    last          \* the operation just performed, its arguments and its outcome

vars == <<formValues, roomType, resolved, bookings, persisted, toast, timers,
          location, navGuests, last>>

-----------------------------------------------------------------------------
(* Bounds of the model *)

\* how many bookings the store may hold before the model stops creating
MaxBookings == 2
\* guest names are drawn with lengths within Slack of the limits 0, 2 and 50,
\* contact numbers with lengths within Slack of 10
Slack == 1

-----------------------------------------------------------------------------
(* JavaScript values *)

Undefined == << "undefined" >>

IsString(v) == v # Undefined

Digit == {"0", "1", "2", "3", "4", "5", "6", "7", "8", "9"}

Lower == {"a", "b", "c", "d", "e", "f", "g", "h", "i", "j", "k", "l", "m",
          "n", "o", "p", "q", "r", "s", "t", "u", "v", "w", "x", "y", "z"}

Upper == {"A", "B", "C", "D", "E", "F", "G", "H", "I", "J", "K", "L", "M",
          "N", "O", "P", "Q", "R", "S", "T", "U", "V", "W", "X", "Y", "Z"}

Letter == Lower \cup Upper

DigitChars == << "0", "1", "2", "3", "4", "5", "6", "7", "8", "9" >>

DigitVal(c) == (CHOOSE i \in 1..10 : DigitChars[i] = c) - 1

\* the string of n copies of character c
Rep(c, n) == [i \in 1..n |-> c]

-----------------------------------------------------------------------------
(* new Date(string) and the comparison of two Dates *)

\* Date.prototype.valueOf() of an Invalid Date
NaN == -1

DaysInMonth(y, m) ==
    IF m \in {4, 6, 9, 11} THEN 30
    ELSE IF m # 2 THEN 31
    ELSE IF (y % 4 = 0 /\ y % 100 # 0) \/ y % 400 = 0 THEN 29
    ELSE 28

\* new Date(s).valueOf() for the strings the model draws: a date-only ISO
\* string YYYY-MM-DD parses to its (UTC) day, given here as an ordinal that
\* orders days as their timestamps are ordered; the empty string and text
\* that is no date parse to an Invalid Date.  Strings whose parse differs
\* between engines (a day past the end of its month, non-ISO date formats)
\* are not drawn.
DateParse(s) ==
    IF /\ Len(s) = 10
       /\ s[5] = "-" /\ s[8] = "-"
       /\ \A i \in {1, 2, 3, 4, 6, 7, 9, 10} : s[i] \in Digit
    THEN LET y == DigitVal(s[1]) * 1000 + DigitVal(s[2]) * 100
                  + DigitVal(s[3]) * 10 + DigitVal(s[4])
             m == DigitVal(s[6]) * 10 + DigitVal(s[7])
             d == DigitVal(s[9]) * 10 + DigitVal(s[10])
         IN  IF m \in 1..12 /\ d >= 1 /\ d <= DaysInMonth(y, m)
             THEN (y * 12 + (m - 1)) * 31 + (d - 1)
             ELSE NaN
    ELSE NaN

\* a > b on two Dates: false when either is an Invalid Date
DateGreater(a, b) == a # NaN /\ b # NaN /\ a > b

-----------------------------------------------------------------------------
(* bookingSchema: the zod schema of the form (zod 3 semantics).             *)
(* Parsing a field yields its issues and whether the parse aborted: a value *)
(* of the wrong type, or outside an enum, aborts; a failed string check     *)
(* (min, max, regex, email) adds an issue and goes on.                      *)

MinName == 2
MaxName == 50
MinDate == 1
ContactDigits == 10

RoomTypes == {<<"S","i","n","g","l","e">>, <<"D","o","u","b","l","e">>,
              <<"D","e","l","u","x","e">>, <<"S","u","i","t","e">>}

Fields == {"guestName", "roomType", "checkInDate", "checkOutDate",
           "contactNumber", "email", "idProof"}

Issue(path, message) == [path |-> path, message |-> message]

\* z.string(): a value that is no string is an invalid_type issue ("Required"
\* for undefined) and aborts; a string runs its checks
ZString(v, path, checkIssues) ==
    IF ~IsString(v)
    THEN [aborted |-> TRUE, issues |-> << Issue(path, "Required") >>]
    ELSE [aborted |-> FALSE, issues |-> checkIssues]

\* guestNameSchema with both limits off by one: min(1), max(51)
guestNameMutLoose(v) ==
    ZString(v, "guestName",
        (IF Len(v) < MinName - 1
         THEN << Issue("guestName", "Name must be at least 2 characters") >>
         ELSE << >>)
        \o (IF Len(v) > MaxName + 1
            THEN << Issue("guestName", "Name too long") >> ELSE << >>))

\* guestName: z.string().min(2, ...).max(50, ...)
guestNameSchema(v) ==
    ZString(v, "guestName",
        (IF Len(v) < MinName
         THEN << Issue("guestName", "Name must be at least 2 characters") >>
         ELSE << >>)
        \o (IF Len(v) > MaxName
            THEN << Issue("guestName", "Name too long") >> ELSE << >>))

\* roomTypeSchema letting an absent or empty roomType pass, as a default would
roomTypeMutDefault(v) ==
    IF ~IsString(v) \/ v = << >>
    THEN [aborted |-> FALSE, issues |-> << >>]
    ELSE IF v \notin RoomTypes
    THEN [aborted |-> TRUE,
          issues |-> << Issue("roomType", "Invalid enum value") >>]
    ELSE [aborted |-> FALSE, issues |-> << >>]

\* roomType: z.enum([...], { required_error }): ZodEnum returns INVALID both
\* for a non-string and for a string outside the enumeration
roomTypeSchema(v) ==
    IF ~IsString(v)
    THEN [aborted |-> TRUE,
          issues |-> << Issue("roomType", "Please select a room type") >>]
    ELSE IF v \notin RoomTypes
    THEN [aborted |-> TRUE,
          issues |-> << Issue("roomType", "Invalid enum value") >>]
    ELSE [aborted |-> FALSE, issues |-> << >>]

\* checkInDate: z.string().min(1, ...)
checkInDateSchema(v) ==
    ZString(v, "checkInDate",
        IF Len(v) < MinDate
        THEN << Issue("checkInDate", "Check-in date is required") >>
        ELSE << >>)

\* checkOutDate: z.string().min(1, ...)
checkOutDateSchema(v) ==
    ZString(v, "checkOutDate",
        IF Len(v) < MinDate
        THEN << Issue("checkOutDate", "Check-out date is required") >>
        ELSE << >>)

\* ContactRegex without the closing anchor: /^[0-9]{10}/
ContactRegexMutUnanchored(s) ==
    /\ Len(s) >= ContactDigits
    /\ \A i \in 1..ContactDigits : s[i] \in Digit

\* /^[0-9]{10}$/.test(s): no flags, so ^ and $ are the ends of the input
ContactRegex(s) ==
    /\ Len(s) = ContactDigits
    /\ \A i \in 1..Len(s) : s[i] \in Digit

\* contactNumber: z.string().regex(/^[0-9]{10}$/, ...)
contactNumberSchema(v) ==
    ZString(v, "contactNumber",
        IF ContactRegex(v) THEN << >>
        ELSE << Issue("contactNumber", "Contact number must be 10 digits") >>)

Alnum == Letter \cup Digit

\* zod 3's e-mail pattern, case-insensitive:
\* ^(?!\.)(?!.*\.\.)([A-Z0-9_'+\-\.]*)[A-Z0-9_+-]@([A-Z0-9][A-Z0-9\-]*\.)+[A-Z]{2,}$
EmailRegex(s) ==
    LET LocalOK(l) ==
            /\ Len(l) >= 1
            /\ \A i \in 1..(Len(l) - 1) : l[i] \in Alnum \cup {"_", "'", "+", "-", "."}
            /\ l[Len(l)] \in Alnum \cup {"_", "+", "-"}
        LabelsOK(p) ==
            /\ Len(p) >= 2
            /\ p[1] \in Alnum
            /\ p[Len(p)] = "."
            /\ \A i \in 1..Len(p) : p[i] \in Alnum \cup {"-", "."}
            /\ \A i \in 1..(Len(p) - 1) : p[i] = "." => p[i + 1] \in Alnum
        DomainOK(d) ==
            \E j \in 1..Len(d) :
                /\ d[j] = "."
                /\ Len(d) - j >= 2
                /\ \A i \in (j + 1)..Len(d) : d[i] \in Letter
                /\ LabelsOK(SubSeq(d, 1, j))
    IN  /\ Len(s) >= 1
        /\ s[1] # "."
        /\ \A i \in 1..(Len(s) - 1) : ~(s[i] = "." /\ s[i + 1] = ".")
        /\ \E k \in 1..Len(s) :
               /\ s[k] = "@"
               /\ LocalOK(SubSeq(s, 1, k - 1))
               /\ DomainOK(SubSeq(s, k + 1, Len(s)))

\* email: z.string().email(...)
emailSchema(v) ==
    ZString(v, "email",
        IF EmailRegex(v) THEN << >>
        ELSE << Issue("email", "Invalid email address") >>)

\* idProof: z.string().optional(): undefined passes, a string passes
idProofSchema(v) == [aborted |-> FALSE, issues |-> << >>]

\* z.object({...}): every key is parsed, in the order of the shape; the
\* object aborts when a key aborted
ObjectParse(data) ==
    LET r == << guestNameSchema(data.guestName),
                roomTypeSchema(data.roomType),
                checkInDateSchema(data.checkInDate),
                checkOutDateSchema(data.checkOutDate),
                contactNumberSchema(data.contactNumber),
                emailSchema(data.email),
                idProofSchema(data.idProof) >>
    IN  [aborted |-> \E i \in 1..Len(r) : r[i].aborted,
         issues  |-> r[1].issues \o r[2].issues \o r[3].issues \o r[4].issues
                     \o r[5].issues \o r[6].issues \o r[7].issues]

\* DateRefine with >= in place of >
DateRefineMutNonStrict(data) ==
    LET checkIn  == DateParse(data.checkInDate)
        checkOut == DateParse(data.checkOutDate)
    IN  checkIn # NaN /\ checkOut # NaN /\ checkOut >= checkIn

\* the refinement: new Date(checkOutDate) > new Date(checkInDate)
DateRefine(data) ==
    LET checkIn  == DateParse(data.checkInDate)
        checkOut == DateParse(data.checkOutDate)
    IN  DateGreater(checkOut, checkIn)

\* bookingSchema = z.object({...}).refine(..., { path: ['checkOutDate'] }):
\* ZodEffects runs the refinement unless the object aborted
bookingSchema(data) ==
    LET inner == ObjectParse(data)
        issues ==
            IF inner.aborted \/ DateRefine(data) THEN inner.issues
            ELSE inner.issues
                 \o << Issue("checkOutDate",
                             "Check-out date must be after check-in date") >>
    IN  [success |-> issues = << >>, issues |-> issues]

\* zodResolver(bookingSchema): formState.errors keeps, per field, the first
\* issue raised on it
zodResolver(values) ==
    LET r == bookingSchema(values)
        paths == {r.issues[i].path : i \in 1..Len(r.issues)}
        first(p) == CHOOSE i \in 1..Len(r.issues) :
                        /\ r.issues[i].path = p
                        /\ \A j \in 1..(i - 1) : r.issues[j].path # p
    IN  [success |-> r.success,
         errors  |-> [p \in paths |-> r.issues[first(p)].message]]

-----------------------------------------------------------------------------
(* The booking store behind useBookings(): BookingContext is not among the  *)
(* source files, so create (addBooking) and transition follow the store's   *)
(* written design: create validates, assigns a fresh id, sets Confirmed,    *)
(* inserts and persists; a failed write is rolled back and surfaced.        *)

Statuses == {"Pending", "Confirmed", "CheckedIn", "CheckedOut", "Cancelled"}

Terminal == {"CheckedOut", "Cancelled"}

\* Adjacency with a checked-out booking reopened: CheckedOut -> Confirmed
AdjacencyMutReopen ==
    {<<"Confirmed", "CheckedIn">>, <<"CheckedIn", "CheckedOut">>,
     <<"Confirmed", "Cancelled">>, <<"Pending", "Confirmed">>,
     <<"Pending", "Cancelled">>, <<"CheckedOut", "Confirmed">>}

\* the lifecycle graph
Adjacency ==
    {<<"Confirmed", "CheckedIn">>, <<"CheckedIn", "CheckedOut">>,
     <<"Confirmed", "Cancelled">>, <<"Pending", "Confirmed">>,
     <<"Pending", "Cancelled">>}

\* create(candidate): the outcome and the store after it
StoreCreate(store, candidate, persistOk) ==
    IF ~bookingSchema(candidate).success
    THEN [outcome |-> "ValidationError", bookings |-> store]
    ELSE IF ~persistOk
    THEN [outcome |-> "PersistenceError", bookings |-> store]
    ELSE [outcome |-> "ok",
          bookings |-> Append(store,
              [id            |-> Len(store) + 1,
               guestName     |-> candidate.guestName,
               roomType      |-> candidate.roomType,
               checkInDate   |-> candidate.checkInDate,
               checkOutDate  |-> candidate.checkOutDate,
               contactNumber |-> candidate.contactNumber,
               email         |-> candidate.email,
               idProof       |-> candidate.idProof,
               status        |-> "Confirmed"])]

\* transition(id, target): the outcome and the store after it
StoreTransition(store, id, target, persistOk) ==
    IF id \notin 1..Len(store)
    THEN [outcome |-> "NotFound", bookings |-> store]
    ELSE IF <<store[id].status, target>> \notin Adjacency
    THEN [outcome |-> "InvalidTransition", bookings |-> store]
    ELSE IF ~persistOk
    THEN [outcome |-> "PersistenceError", bookings |-> store]
    ELSE [outcome |-> "ok",
          bookings |-> [store EXCEPT ![id].status = target]]

-----------------------------------------------------------------------------
(* Values the model draws *)

Jo == << "J", "o" >>
Suite == << "S", "u", "i", "t", "e" >>
Single == << "S", "i", "n", "g", "l", "e" >>
Penthouse == << "P", "e", "n", "t", "h", "o", "u", "s", "e" >>
June1 == << "2", "0", "2", "5", "-", "0", "6", "-", "0", "1" >>
June5 == << "2", "0", "2", "5", "-", "0", "6", "-", "0", "5" >>
NotADate == << "s", "o", "o", "n" >>
Phone == << "9", "8", "7", "6", "5", "4", "3", "2", "1", "0" >>
Phone5 == << "1", "2", "3", "4", "5" >>
JaneMail == << "j", "@", "e", "x", ".", "c", "o" >>
BadMail == << "j", "@", "e", "x" >>

\* the values of an unedited form: a text input reads "", roomType was never set
BlankForm ==
    [guestName |-> << >>, roomType |-> Undefined, checkInDate |-> << >>,
     checkOutDate |-> << >>, contactNumber |-> << >>, email |-> << >>,
     idProof |-> << >>]

\* what a user types into each registered input (the date inputs yield "" or
\* an ISO date; the date inputs' min and the e-mail input's type only narrow
\* what the browser lets reach handleSubmit)
Typed ==
    [guestName     |-> {<< >>, Jo},
     checkInDate   |-> {<< >>, June1, June5},
     checkOutDate  |-> {<< >>, June1, June5},
     contactNumber |-> {<< >>, Phone},
     email         |-> {<< >>, JaneMail},
     idProof       |-> {<< >>}]

\* the SelectItems the model's user picks: two of the four
SelectItems == {Single, Suite}

ValidCandidate ==
    [guestName |-> Jo, roomType |-> Suite, checkInDate |-> June1,
     checkOutDate |-> June5, contactNumber |-> Phone, email |-> JaneMail,
     idProof |-> << >>]

NameLengths ==
    {n \in 0..(MaxName + Slack) :
        \/ n <= Slack
        \/ (n >= MinName - Slack /\ n <= MinName + Slack)
        \/ n >= MaxName - Slack}

GuestNames == {Rep("a", n) : n \in NameLengths} \cup {Undefined}

Digits(n) == [i \in 1..n |-> DigitChars[(i % 10) + 1]]

ContactNumbers ==
    {Digits(n) : n \in (ContactDigits - Slack)..(ContactDigits + Slack)}
    \cup {[Digits(ContactDigits) EXCEPT ![k] = c] :
            k \in 1..ContactDigits, c \in {"a", " ", "-", "+"}}
    \cup {Digits(ContactDigits) \o << c >> : c \in {"\n", " "}}
    \cup {<< " " >> \o Digits(ContactDigits)}
    \cup {<< >>, Phone, Phone5, Undefined}

RoomTypeValues ==
    RoomTypes \cup {Undefined, << >>, Penthouse,
                    << "s", "u", "i", "t", "e" >>}

DateValues == {Undefined, << >>, NotADate, June1, June5}

EmailValues == {Undefined, << >>, BadMail, JaneMail,
                << ".", "j", "@", "e", "x", ".", "c", "o" >>,
                << "j", "@", "e", "x", ".", "c" >>}

\* every combination of a few values per field ...
WideCandidates ==
    [guestName     : {Undefined, << >>, Jo},
     roomType      : {Undefined, Penthouse, Suite},
     checkInDate   : DateValues,
     checkOutDate  : DateValues,
     contactNumber : {Undefined, Phone5, Phone},
     email         : {Undefined, BadMail, JaneMail},
     idProof       : {<< >>}]

\* ... and a valid candidate with one field drawn from many values
DeepCandidates ==
    {[ValidCandidate EXCEPT !.guestName = v] : v \in GuestNames}
    \cup {[ValidCandidate EXCEPT !.roomType = v] : v \in RoomTypeValues}
    \cup {[ValidCandidate EXCEPT !.contactNumber = v] : v \in ContactNumbers}
    \cup {[ValidCandidate EXCEPT !.email = v] : v \in EmailValues}
    \cup {[ValidCandidate EXCEPT !.idProof = v] : v \in {Undefined, Jo}}

Candidates == WideCandidates \cup DeepCandidates

\* what callers hand to the store's create
StoreCandidates ==
    {ValidCandidate,
     [ValidCandidate EXCEPT !.roomType = Single],
     [ValidCandidate EXCEPT !.checkOutDate = June1],
     [ValidCandidate EXCEPT !.checkInDate = June5, !.checkOutDate = June1],
     [ValidCandidate EXCEPT !.checkInDate = NotADate],
     [ValidCandidate EXCEPT !.roomType = Undefined],
     [ValidCandidate EXCEPT !.guestName = << "J" >>],
     [ValidCandidate EXCEPT !.contactNumber = Phone5],
     [ValidCandidate EXCEPT !.email = BadMail]}

-----------------------------------------------------------------------------
(* The state machine *)

NoErrors == << >>

\* the record of an operation: the form's data or the store's arguments
Op(op, data, outcome) ==
    [op |-> op, data |-> data, id |-> 0, from |-> "", target |-> "",
     outcome |-> outcome]

Init ==
    /\ formValues = BlankForm
    /\ roomType = << >>
    /\ resolved = NoErrors
    /\ bookings = << >>
    /\ persisted = << >>
    /\ toast = "none"
    /\ timers = 0
    /\ location = "/booking"
    /\ navGuests = 0
    /\ last = Op("init", BlankForm, "")

\* typing into a registered input: {...register(name)}
EditField(name, value) ==
    /\ location = "/booking"
    /\ formValues' = [formValues EXCEPT ![name] = value]
    /\ resolved' = NoErrors
    /\ toast' = "none"
    /\ last' = Op("edit", BlankForm, "")
    /\ UNCHANGED <<roomType, bookings, persisted, timers, location, navGuests>>

\* Select.onValueChange: setRoomType(value); register('roomType').onChange(...)
SelectRoomType(value) ==
    /\ location = "/booking"
    /\ roomType' = value
    /\ formValues' = [formValues EXCEPT !.roomType = value]
    /\ resolved' = NoErrors
    /\ toast' = "none"
    /\ last' = Op("select", BlankForm, "")
    /\ UNCHANGED <<bookings, persisted, timers, location, navGuests>>


\* OnSubmit raising the success toast before addBooking, with a silent catch
OnSubmitMutToastFirst(data, persistOk) ==
    LET r == StoreCreate(bookings, data, persistOk)
    IN  /\ toast' = "success"
        /\ resolved' = NoErrors
        /\ IF r.outcome = "ok"
           THEN /\ bookings' = r.bookings
                /\ persisted' = r.bookings
                /\ formValues' = BlankForm
                /\ roomType' = << >>
                /\ timers' = timers + 1
                /\ last' = Op("submit", data, "ok")
           ELSE /\ last' = Op("submit", data, "threw")
                /\ UNCHANGED <<formValues, roomType, bookings, persisted, timers>>
        /\ UNCHANGED <<location, navGuests>>

\* OnSubmit without the setTimeout
OnSubmitMutNoTimer(data, persistOk) ==
    LET r == StoreCreate(bookings, data, persistOk)
    IN  /\ resolved' = NoErrors
        /\ IF r.outcome = "ok"
           THEN /\ bookings' = r.bookings
                /\ persisted' = r.bookings
                /\ toast' = "success"
                /\ formValues' = BlankForm
                /\ roomType' = << >>
                /\ last' = Op("submit", data, "ok")
                /\ UNCHANGED timers
           ELSE /\ toast' = "error"
                /\ last' = Op("submit", data, "threw")
                /\ UNCHANGED <<formValues, roomType, bookings, persisted, timers>>
        /\ UNCHANGED <<location, navGuests>>

\* onSubmit(data): addBooking either returns, and then the success toast,
\* reset(), setRoomType('') and setTimeout follow, or throws, and then the
\* catch raises the error toast
OnSubmit(data, persistOk) ==
    LET r == StoreCreate(bookings, data, persistOk)
    IN  /\ resolved' = NoErrors
        /\ IF r.outcome = "ok"
           THEN /\ bookings' = r.bookings
                /\ persisted' = r.bookings
                /\ toast' = "success"
                /\ formValues' = BlankForm
                /\ roomType' = << >>
                /\ timers' = timers + 1
                /\ last' = Op("submit", data, "ok")
           ELSE /\ toast' = "error"
                /\ last' = Op("submit", data, "threw")
                /\ UNCHANGED <<formValues, roomType, bookings, persisted, timers>>
        /\ UNCHANGED <<location, navGuests>>

\* <form onSubmit={handleSubmit(onSubmit)}>: the resolver runs first and
\* onSubmit is called only when it reports no error
Submit(persistOk) ==
    /\ location = "/booking"
    /\ LET r == zodResolver(formValues)
       IN  IF r.success
           THEN /\ Len(bookings) < MaxBookings
                /\ OnSubmit(formValues, persistOk)
           ELSE /\ resolved' = r.errors
                /\ toast' = "none"
                /\ last' = Op("submit", formValues, "invalid")
                /\ UNCHANGED <<formValues, roomType, bookings, persisted,
                               timers, location, navGuests>>

\* the callback of setTimeout(() => navigate('/guests'), 1500); the timeout is
\* never cleared, so it also fires after the form was left
TimerFire ==
    /\ timers > 0
    /\ timers' = timers - 1
    /\ navGuests' = navGuests + 1
    /\ location' = "/guests"
    /\ formValues' = BlankForm
    /\ roomType' = << >>
    /\ resolved' = NoErrors
    /\ toast' = "none"
    /\ last' = Op("timer", BlankForm, "")
    /\ UNCHANGED <<bookings, persisted>>

\* the Cancel button: navigate('/'), which unmounts the form
CancelClick ==
    /\ location = "/booking"
    /\ location' = "/"
    /\ formValues' = BlankForm
    /\ roomType' = << >>
    /\ resolved' = NoErrors
    /\ toast' = "none"
    /\ last' = Op("cancel", BlankForm, "")
    /\ UNCHANGED <<bookings, persisted, timers, navGuests>>

\* <Route path="/booking" element={<BookingForm />} />: a fresh form is mounted
OpenBooking ==
    /\ location # "/booking"
    /\ location' = "/booking"
    /\ formValues' = BlankForm
    /\ roomType' = << >>
    /\ resolved' = NoErrors
    /\ toast' = "none"
    /\ last' = Op("open", BlankForm, "")
    /\ UNCHANGED <<bookings, persisted, timers, navGuests>>

Next ==
    \/ \E name \in DOMAIN Typed : \E value \in Typed[name] : EditField(name, value)
    \/ \E value \in SelectItems : SelectRoomType(value)
    \/ \E persistOk \in BOOLEAN : Submit(persistOk)
    \/ TimerFire
    \/ CancelClick
    \/ OpenBooking

Spec == Init /\ [][Next]_vars

\* a pending timeout's callback is eventually run by the event loop
FairSpec == Spec /\ WF_vars(TimerFire)

-----------------------------------------------------------------------------
(* The store called directly, with any candidate *)

\* create(candidate)
Create(candidate, persistOk) ==
    /\ Len(bookings) < MaxBookings
    /\ LET r == StoreCreate(bookings, candidate, persistOk)
       IN  /\ bookings' = r.bookings
           /\ persisted' = IF r.outcome = "ok" THEN r.bookings ELSE persisted
           /\ last' = Op("create", candidate, r.outcome)
    /\ UNCHANGED <<formValues, roomType, resolved, toast, timers, location,
                   navGuests>>

\* transition(id, target)
Transition(id, target, persistOk) ==
    LET r == StoreTransition(bookings, id, target, persistOk)
    IN  /\ bookings' = r.bookings
        /\ persisted' = IF r.outcome = "ok" THEN r.bookings ELSE persisted
        /\ last' = [op |-> "transition", data |-> BlankForm, id |-> id,
                    from |-> IF id \in 1..Len(bookings)
                             THEN bookings[id].status ELSE "",
                    target |-> target, outcome |-> r.outcome]
        /\ UNCHANGED <<formValues, roomType, resolved, toast, timers, location,
                       navGuests>>

NextStore ==
    \/ \E c \in StoreCandidates : \E persistOk \in BOOLEAN : Create(c, persistOk)
    \/ \E id \in 1..(MaxBookings + 1) : \E target \in Statuses :
           \E persistOk \in BOOLEAN : Transition(id, target, persistOk)

SpecStore == Init /\ [][NextStore]_vars

-----------------------------------------------------------------------------
(* The schema applied to any candidate *)

InitValidate ==
    /\ formValues \in Candidates
    /\ roomType = << >>
    /\ resolved = NoErrors
    /\ bookings = << >>
    /\ persisted = << >>
    /\ toast = "none"
    /\ timers = 0
    /\ location = "/booking"
    /\ navGuests = 0
    /\ last = Op("init", BlankForm, "")

\* zodResolver(bookingSchema) on the candidate
Validate ==
    /\ last.op = "init"
    /\ LET r == zodResolver(formValues)
       IN  /\ resolved' = r.errors
           /\ last' = Op("validate", formValues,
                         IF r.success THEN "ok" ELSE "invalid")
    /\ UNCHANGED <<formValues, roomType, bookings, persisted, toast, timers,
                   location, navGuests>>

NextValidate == Validate

SpecValidate == InitValidate /\ [][NextValidate]_vars

-----------------------------------------------------------------------------
(* What the written design asks of a candidate, stated without the schema   *)

\* both dates are dates and check-out is not after check-in
NotLater(data) ==
    /\ IsString(data.checkInDate) /\ IsString(data.checkOutDate)
    /\ DateParse(data.checkInDate) # NaN
    /\ DateParse(data.checkOutDate) # NaN
    /\ DateParse(data.checkOutDate) <= DateParse(data.checkInDate)

\* both dates are dates and check-out is strictly after check-in
StrictlyLater(data) ==
    /\ IsString(data.checkInDate) /\ IsString(data.checkOutDate)
    /\ DateParse(data.checkInDate) # NaN
    /\ DateParse(data.checkOutDate) # NaN
    /\ DateParse(data.checkOutDate) > DateParse(data.checkInDate)

TenAsciiDigits(v) ==
    /\ IsString(v)
    /\ Len(v) = 10
    /\ \A i \in 1..Len(v) : v[i] \in Digit

NameInRange(v) == IsString(v) /\ Len(v) >= 2 /\ Len(v) <= 50

\* a date field that is missing, empty or no calendar date
BadDate(v) == ~IsString(v) \/ DateParse(v) = NaN

\* the rule of field f fails on the candidate
FieldFails(f, data) ==
    CASE f = "guestName"     -> ~NameInRange(data.guestName)
      [] f = "roomType"      -> data.roomType \notin RoomTypes
      [] f = "checkInDate"   -> ~IsString(data.checkInDate) \/ data.checkInDate = << >>
      [] f = "checkOutDate"  -> \/ ~IsString(data.checkOutDate)
                                \/ data.checkOutDate = << >>
                                \/ NotLater(data)
      [] f = "contactNumber" -> ~TenAsciiDigits(data.contactNumber)
      [] f = "email"         -> ~IsString(data.email) \/ ~EmailRegex(data.email)
      [] OTHER               -> FALSE

-----------------------------------------------------------------------------
(* The claims *)

\* C1: a submission whose check-out date is equal to or earlier than its
\* check-in date is rejected with an error on checkOutDate, and the store is
\* not touched.  (Stated as claimed; the schema skips the date rule when
\* another field aborts the parse, see C2.)
C1_NotLaterRejectedOnCheckOut ==
    [][(last'.op = "submit" /\ NotLater(last'.data))
         => /\ last'.outcome = "invalid"
            /\ "checkOutDate" \in DOMAIN resolved'
            /\ bookings' = bookings
            /\ persisted' = persisted]_vars

\* C2: a failed validation reports every failing field at once, the
\* cross-field date error on checkOutDate included, whatever else fails.
C2_EveryFailingFieldReported ==
    last.op = "validate"
        => \A f \in Fields : FieldFails(f, last.data) => f \in DOMAIN resolved

C4_LifecycleOnly ==
    [][/\ last'.op = "transition"
          => LET pair == << last'.from, last'.target >>
                 allowed == {<<"Confirmed", "CheckedIn">>,
                             <<"CheckedIn", "CheckedOut">>,
                             <<"Confirmed", "Cancelled">>,
                             <<"Pending", "Confirmed">>,
                             <<"Pending", "Cancelled">>}
             IN  /\ last'.outcome = "ok"
                      => /\ pair \in allowed
                         /\ bookings'[last'.id].status = last'.target
                 /\ (last'.id \in 1..Len(bookings) /\ pair \notin allowed)
                      => /\ last'.outcome = "InvalidTransition"
                         /\ bookings' = bookings
                         /\ persisted' = persisted
       /\ \A i \in 1..Len(bookings) :
             bookings[i].status \in {"CheckedOut", "Cancelled"}
                => /\ i <= Len(bookings')
                   /\ bookings'[i].status = bookings[i].status]_vars

C4_Witness ==
    /\ last.op = "transition"
    /\ last.from = "CheckedOut"
    /\ last.target = "Confirmed"
    /\ last.outcome = "InvalidTransition"

\* C5: a submit whose addBooking throws raises the error toast and nothing
\* else: no success toast, the store and its durable copy as before, the form
\* not reset, no timeout scheduled, no navigation.
C5_FailedWriteNotSuccess ==
    [][(last'.op = "submit" /\ last'.outcome = "threw")
         => /\ toast' = "error"
            /\ bookings' = bookings
            /\ persisted' = persisted
            /\ formValues' = formValues
            /\ roomType' = roomType
            /\ timers' = timers
            /\ navGuests' = navGuests
            /\ location' = location]_vars

C5_Witness ==
    /\ last.op = "submit"
    /\ last.outcome = "threw"
    /\ toast = "error"
    /\ formValues = last.data

\* C6: validation raises an error on contactNumber exactly when the value is
\* not ten ASCII digits with nothing around them, and such a candidate fails.
C6_ContactTenDigits ==
    last.op = "validate"
        => /\ ("contactNumber" \in DOMAIN resolved)
                <=> ~TenAsciiDigits(last.data.contactNumber)
           /\ ~TenAsciiDigits(last.data.contactNumber) => last.outcome = "invalid"

C6_Witness ==
    /\ last.op = "validate"
    /\ Len(last.data.contactNumber) = 11
    /\ \A i \in 1..11 : last.data.contactNumber[i] \in Digit
    /\ DOMAIN resolved = {"contactNumber"}

\* C7: a date that is missing, empty or no calendar date is rejected with the
\* error on the date field that is bad.  (Stated as claimed; the schema only
\* checks that a date is non-empty, and its date comparison reports on
\* checkOutDate.)
C7_BadDateReportedOnItsField ==
    last.op = "validate"
        => \A f \in {"checkInDate", "checkOutDate"} :
              BadDate(last.data[f])
                 => last.outcome = "invalid" /\ f \in DOMAIN resolved

\* C8: a roomType that is absent, empty or outside Single, Double, Deluxe,
\* Suite is an error on roomType and nothing is stored for it; no default
\* stands in, also on the submit that follows a successful one, whose reset
\* cleared the selection.
C8_RoomTypeNeverDefaulted ==
    /\ (last.op = "submit" /\ last.data.roomType \notin RoomTypes)
          => last.outcome = "invalid" /\ "roomType" \in DOMAIN resolved
    /\ (last.op = "submit" /\ last.outcome = "ok")
          => formValues.roomType = Undefined /\ roomType = << >>
    /\ \A i \in 1..Len(bookings) : bookings[i].roomType \in RoomTypes
    /\ \A v \in RoomTypeValues :
          LET r == zodResolver([ValidCandidate EXCEPT !.roomType = v])
          IN  r.success <=> v \in RoomTypes

C8_Witness ==
    /\ last.op = "submit"
    /\ last.outcome = "invalid"
    /\ Len(bookings) >= 1
    /\ last.data.roomType = Undefined
    /\ DOMAIN resolved = {"roomType"}

\* C9: validation raises an error on guestName exactly when its length is
\* not between 2 and 50 inclusive.
C9_GuestNameLength ==
    last.op = "validate"
        => /\ ("guestName" \in DOMAIN resolved) <=> ~NameInRange(last.data.guestName)
           /\ ~NameInRange(last.data.guestName) => last.outcome = "invalid"

C9_Witness ==
    /\ last.op = "validate"
    /\ Len(last.data.guestName) = 51
    /\ DOMAIN resolved = {"guestName"}

\* C10: navigations to '/guests' and pending timeouts together always number
\* the submits whose addBooking returned; a navigation to '/guests' is one
\* pending timeout firing; a timeout is scheduled only by such a submit, never
\* by a submit that failed validation or threw; and every such submit is
\* eventually followed by its navigation.
C10_OneNavigationPerSuccess ==
    /\ [](navGuests + timers = Len(bookings))
    /\ [][/\ navGuests' # navGuests
             => timers > 0 /\ timers' = timers - 1
                /\ navGuests' = navGuests + 1 /\ location' = "/guests"
          /\ (location' = "/guests" /\ location # "/guests")
             => navGuests' = navGuests + 1
          /\ timers' > timers
             => last'.op = "submit" /\ last'.outcome = "ok"
                /\ timers' = timers + 1
          /\ (last'.op = "submit" /\ last'.outcome # "ok")
             => timers' = timers /\ navGuests' = navGuests]_vars
    /\ \A k \in 1..MaxBookings : (Len(bookings) >= k) ~> (navGuests >= k)

C10_Witness ==
    /\ last.op = "timer"
    /\ location = "/guests"
    /\ navGuests = 2
    /\ timers = 0

=============================================================================
